---- MODULE Spec2Model ----
(***************************************************************************)
(* Model of src/interface.py: the UpSetMatrixApp widget.                   *)
(*                                                                         *)
(* Text is a sequence of one-character strings, so that str.strip,         *)
(* str.split, int() and sorted() are computed character by character.      *)
(* An attribute that is only created by a handler (num_sets, set_entries,  *)
(* item_textboxes) is Absent until its first assignment and Some(v) after. *)
(* set_data, a Python dict, is a sequence of [name, items] entries in key  *)
(* insertion order.                                                        *)
(* messages, df, shown and written record what the latest user event did   *)
(* (dialogs opened, table derived, figure displayed, file written);        *)
(* last_call names that event.  ever_success is a history variable.        *)
(***************************************************************************)
EXTENDS Integers, Sequences, FiniteSets

VARIABLES num_sets_entry, num_sets, set_entries, item_textboxes, set_data,
          generate_button, save_matrix_button, save_plot_button,
          messages, df, shown, written, last_call, ever_success

vars == <<num_sets_entry, num_sets, set_entries, item_textboxes, set_data,
          generate_button, save_matrix_button, save_plot_button,
          messages, df, shown, written, last_call, ever_success>>

(* ---------------------------------------------------------------------- *)
(* Bounds and input alphabets                                              *)
(* ---------------------------------------------------------------------- *)

\* largest set count the user types
MaxCount == 2

NL == "\n"

\* texts the user types into the "number of sets" field: not a number, zero,
\* negative, and the counts 1..MaxCount (typed with a leading blank)
CountTexts ==
    { <<"a">>, <<"0">>, <<"-", "1">> }
    \cup { <<" ", <<"1", "2", "3", "4", "5", "6", "7", "8", "9">>[k]>> : k \in 1..MaxCount }

\* texts the user types into a "Set i Name" field
NameTexts == { <<>>, <<" ", "A">>, <<"B">> }

\* texts the user types into an items box (one item per line)
ItemTexts == { <<>>, <<"x">>, <<"y", NL, " ", NL, " ", "x">> }

\* results of QFileDialog.getSaveFileName: <<>> is a cancelled dialog
FilePaths == { <<>>, <<"f">> }

(* ---------------------------------------------------------------------- *)
(* Attributes that may not exist yet                                       *)
(* ---------------------------------------------------------------------- *)

Absent == <<>>
Some(v) == <<v>>
Get(a) == a[1]

(* ---------------------------------------------------------------------- *)
(* Python built-ins                                                        *)
(* ---------------------------------------------------------------------- *)

\* characters str.strip() removes (of the alphabet used here)
Whitespace == { " ", NL }

RECURSIVE lstrip(_)
lstrip(s) ==
    IF s = <<>> THEN s
    ELSE IF Head(s) \in Whitespace THEN lstrip(Tail(s)) ELSE s

RECURSIVE rstrip(_)
rstrip(s) ==
    IF s = <<>> THEN s
    ELSE IF s[Len(s)] \in Whitespace THEN rstrip(SubSeq(s, 1, Len(s) - 1)) ELSE s

strip(s) == rstrip(lstrip(s))

\* str.split(sep): the list of pieces between separators ("" gives [""])
RECURSIVE split(_, _)
split(s, sep) ==
    IF \A i \in 1..Len(s) : s[i] # sep THEN <<s>>
    ELSE LET k == CHOOSE i \in 1..Len(s) :
                      s[i] = sep /\ \A j \in 1..(i - 1) : s[j] # sep
         IN  <<SubSeq(s, 1, k - 1)>> \o split(SubSeq(s, k + 1, Len(s)), sep)

DigitChars == <<"0", "1", "2", "3", "4", "5", "6", "7", "8", "9">>

IsDigit(c) == \E d \in 1..10 : DigitChars[d] = c

DigitVal(c) == (CHOOSE d \in 1..10 : DigitChars[d] = c) - 1

RECURSIVE DigitsValue(_)
DigitsValue(s) ==
    IF s = <<>> THEN 0
    ELSE 10 * DigitsValue(SubSeq(s, 1, Len(s) - 1)) + DigitVal(s[Len(s)])

\* int(s): surrounding whitespace ignored, optional sign, one or more digits;
\* ok = FALSE stands for ValueError
int(s) ==
    LET t    == strip(s)
        neg  == t # <<>> /\ Head(t) = "-"
        body == IF t # <<>> /\ Head(t) \in {"-", "+"} THEN Tail(t) ELSE t
        ok   == body # <<>> /\ \A i \in 1..Len(body) : IsDigit(body[i])
    IN  [ok |-> ok,
         value |-> IF ok THEN (IF neg THEN 0 - DigitsValue(body) ELSE DigitsValue(body))
                   ELSE 0]

CharCode(c) ==
    IF c = NL THEN 10
    ELSE IF c = " " THEN 32
    ELSE IF c = "A" THEN 65
    ELSE IF c = "B" THEN 66
    ELSE IF c = "a" THEN 97
    ELSE IF c = "x" THEN 120
    ELSE IF c = "y" THEN 121
    ELSE 0

\* s < t for Python strings: lexicographic by code point
RECURSIVE StrLess(_, _)
StrLess(s, t) ==
    IF t = <<>> THEN FALSE
    ELSE IF s = <<>> THEN TRUE
    ELSE IF CharCode(Head(s)) < CharCode(Head(t)) THEN TRUE
    ELSE IF CharCode(Head(s)) > CharCode(Head(t)) THEN FALSE
    ELSE StrLess(Tail(s), Tail(t))

RECURSIVE sorted_reversed(_)
sorted_reversed(S) ==
    IF S = {} THEN <<>>
    ELSE LET m == CHOOSE x \in S : \A y \in S : x = y \/ StrLess(y, x)
         IN  <<m>> \o sorted_reversed(S \ {m})

\* sorted(S): the elements of S in ascending order
RECURSIVE sorted(_)
sorted(S) ==
    IF S = {} THEN <<>>
    ELSE LET m == CHOOSE x \in S : \A y \in S : x = y \/ StrLess(x, y)
         IN  <<m>> \o sorted(S \ {m})

(* ---------------------------------------------------------------------- *)
(* dict operations on set_data                                             *)
(* ---------------------------------------------------------------------- *)

keys(d) == [k \in 1..Len(d) |-> d[k].name]

HasKey(d, name) == \E k \in 1..Len(d) : d[k].name = name

\* d[name] = items: a new key is appended, an existing key keeps its place
\* and gets the new value
DictSet(d, name, items) ==
    IF HasKey(d, name)
    THEN [k \in 1..Len(d) |->
            IF d[k].name = name THEN [name |-> name, items |-> items] ELSE d[k]]
    ELSE Append(d, [name |-> name, items |-> items])

\* set.union(*d.values())
union_values(d) == UNION { d[k].items : k \in 1..Len(d) }

(* ---------------------------------------------------------------------- *)
(* Dialogs                                                                 *)
(* ---------------------------------------------------------------------- *)

Msg(icon, title, text, arg) == [icon |-> icon, title |-> title, text |-> text, arg |-> arg]

ErrCount   == Msg("critical", "Error", "Please enter a valid positive integer.", <<>>)
ErrName    == Msg("critical", "Error", "Set name cannot be empty.", <<>>)
ErrItems(set_name) == Msg("critical", "Error", "Set '{set_name}' cannot be empty.", set_name)
InfoOK     == Msg("information", "Success", "Sets processed successfully.", <<>>)
ErrNoSave  == Msg("critical", "Error", "No data to save.", <<>>)
ErrNoPlot  == Msg("critical", "Error", "No data to visualize.", <<>>)
InfoCsv(file_path) == Msg("information", "Saved", "Binary matrix saved as '{file_path}'", file_path)
InfoPng(file_path) == Msg("information", "Saved", "UpSet plot saved as '{file_path}'", file_path)

(* ---------------------------------------------------------------------- *)
(* The table                                                               *)
(* ---------------------------------------------------------------------- *)

\* 1 if item in self.set_data[set_name] else 0
cell(item, items) == IF item \in items THEN 1 ELSE 0

\* all_items, binary_matrix and the DataFrame built from them
DataFrame(d) ==
    LET all_items == sorted(union_values(d))
    IN  [index   |-> all_items,
         columns |-> keys(d),
         rows    |-> [i \in 1..Len(all_items) |->
                        [k \in 1..Len(d) |-> cell(all_items[i], d[k].items)]]]

(* ---------------------------------------------------------------------- *)
(* Init: the state after UpSetMatrixApp() has run __init__ and init_ui     *)
(* ---------------------------------------------------------------------- *)

init_generate_enabled_mutant == TRUE

\* self.generate_button.setEnabled(False)
init_generate_enabled == FALSE

Init ==
    /\ num_sets_entry = <<>>
    /\ num_sets = Absent
    /\ set_entries = Absent
    /\ item_textboxes = Absent
    /\ set_data = <<>>
    /\ generate_button = init_generate_enabled
    /\ save_matrix_button = FALSE
    /\ save_plot_button = FALSE
    /\ messages = <<>>
    /\ df = Absent
    /\ shown = FALSE
    /\ written = "none"
    /\ last_call = "init"
    /\ ever_success = FALSE


(* ---------------------------------------------------------------------- *)
(* User typing into the dynamic fields                                     *)
(* ---------------------------------------------------------------------- *)

NoEffects ==
    /\ messages' = <<>>
    /\ df' = Absent
    /\ shown' = FALSE
    /\ written' = "none"

\* the user replaces the text of the i-th "Set i Name" QLineEdit
type_set_name(i, text) ==
    /\ set_entries # Absent
    /\ i \in 1..Len(Get(set_entries))
    /\ Get(set_entries)[i] # text
    /\ set_entries' = Some([Get(set_entries) EXCEPT ![i] = text])
    /\ last_call' = "typing"
    /\ NoEffects
    /\ UNCHANGED <<num_sets_entry, num_sets, item_textboxes, set_data,
                   generate_button, save_matrix_button, save_plot_button, ever_success>>

\* the user replaces the text of the i-th items QTextEdit
type_items(i, text) ==
    /\ item_textboxes # Absent
    /\ i \in 1..Len(Get(item_textboxes))
    /\ Get(item_textboxes)[i] # text
    /\ item_textboxes' = Some([Get(item_textboxes) EXCEPT ![i] = text])
    /\ last_call' = "typing"
    /\ NoEffects
    /\ UNCHANGED <<num_sets_entry, num_sets, set_entries, set_data,
                   generate_button, save_matrix_button, save_plot_button, ever_success>>

(* ---------------------------------------------------------------------- *)
(* get_user_input: the Submit button, with text typed in the count field   *)
(* ---------------------------------------------------------------------- *)

count_rejected_mutant(n) == n < 0

\* if self.num_sets <= 0: raise ValueError
count_rejected(n) == n <= 0

get_user_input(text) ==
    LET r == int(strip(text))
    IN  /\ num_sets_entry' = text
        /\ last_call' = "get_user_input"
        /\ df' = Absent
        /\ shown' = FALSE
        /\ written' = "none"
        /\ UNCHANGED <<set_data, save_matrix_button, save_plot_button, ever_success>>
        /\ IF ~r.ok
           THEN \* int() raised before the assignment
                /\ messages' = <<ErrCount>>
                /\ UNCHANGED <<num_sets, set_entries, item_textboxes, generate_button>>
           ELSE /\ num_sets' = Some(r.value)
                /\ IF count_rejected(r.value)
                   THEN /\ messages' = <<ErrCount>>
                        /\ UNCHANGED <<set_entries, item_textboxes, generate_button>>
                   ELSE /\ messages' = <<>>
                        /\ set_entries' = Some([i \in 1..r.value |-> <<>>])
                        /\ item_textboxes' = Some([i \in 1..r.value |-> <<>>])
                        /\ generate_button' = TRUE

(* ---------------------------------------------------------------------- *)
(* process_sets: the Generate button                                       *)
(* ---------------------------------------------------------------------- *)

parse_items_unstripped(text) ==
    LET items == split(strip(text), NL)
    IN  { items[j] : j \in 1..Len(items) }

\* items = ...strip().split("\n"); set(item.strip() for item in items if item.strip())
parse_items(text) ==
    LET items == split(strip(text), NL)
    IN  { strip(items[j]) : j \in { j \in 1..Len(items) : strip(items[j]) # <<>> } }

process_field_skip(d, name_text, items_text) ==
    LET set_name == strip(name_text)
        items    == parse_items(items_text)
    IN  IF set_name = <<>> THEN [d |-> d, err |-> <<ErrName>>]
        ELSE IF items = {} THEN [d |-> d, err |-> <<>>]
        ELSE [d |-> DictSet(d, set_name, items), err |-> <<>>]

\* one iteration of the loop body: err is the dialog of an early return
process_field(d, name_text, items_text) ==
    LET set_name == strip(name_text)
        items    == parse_items(items_text)
    IN  IF set_name = <<>> THEN [d |-> d, err |-> <<ErrName>>]
        ELSE IF items = {} THEN [d |-> d, err |-> <<ErrItems(set_name)>>]
        ELSE [d |-> DictSet(d, set_name, items), err |-> <<>>]

\* for i in range(self.num_sets), from field i on (fields are numbered from 1)
RECURSIVE process_loop(_, _, _)
process_loop(i, n, d) ==
    IF i > n THEN [d |-> d, err |-> <<>>]
    ELSE LET f == process_field(d, Get(set_entries)[i], Get(item_textboxes)[i])
         IN  IF f.err # <<>> THEN f ELSE process_loop(i + 1, n, f.d)

\* show_upset_plot over the collection d
show_upset_plot(d) ==
    IF d = <<>>
    THEN [messages |-> <<ErrNoPlot>>, df |-> Absent, shown |-> FALSE]
    ELSE [messages |-> <<>>, df |-> Some(DataFrame(d)), shown |-> TRUE]

process_sets ==
    /\ generate_button
    /\ LET r == process_loop(1, Get(num_sets), <<>>)   \* after set_data.clear()
           p == show_upset_plot(r.d)
       IN  /\ set_data' = r.d
           /\ IF r.err # <<>>
              THEN /\ messages' = r.err
                   /\ df' = Absent
                   /\ shown' = FALSE
                   /\ UNCHANGED <<save_matrix_button, save_plot_button, ever_success>>
              ELSE /\ messages' = <<InfoOK>> \o p.messages
                   /\ df' = p.df
                   /\ shown' = p.shown
                   /\ save_matrix_button' = TRUE
                   /\ save_plot_button' = TRUE
                   /\ ever_success' = TRUE
    /\ written' = "none"
    /\ last_call' = "process_sets"
    /\ UNCHANGED <<num_sets_entry, num_sets, set_entries, item_textboxes, generate_button>>

(* ---------------------------------------------------------------------- *)
(* save_to_csv and save_upset_plot                                         *)
(* ---------------------------------------------------------------------- *)

save_to_csv_unguarded(d, file_path) ==
    [df       |-> Some(DataFrame(d)),
     written  |-> IF file_path # <<>> THEN "csv" ELSE "none",
     messages |-> IF file_path # <<>> THEN <<InfoCsv(file_path)>> ELSE <<>>]

\* what save_to_csv does over the collection d when the dialog returns file_path
save_to_csv_effect(d, file_path) ==
    IF d = <<>>
    THEN [df |-> Absent, written |-> "none", messages |-> <<ErrNoSave>>]
    ELSE [df       |-> Some(DataFrame(d)),
          written  |-> IF file_path # <<>> THEN "csv" ELSE "none",
          messages |-> IF file_path # <<>> THEN <<InfoCsv(file_path)>> ELSE <<>>]

save_to_csv(file_path) ==
    /\ save_matrix_button
    /\ LET e == save_to_csv_effect(set_data, file_path)
       IN  /\ df' = e.df
           /\ written' = e.written
           /\ messages' = e.messages
    /\ shown' = FALSE
    /\ last_call' = "save_to_csv"
    /\ UNCHANGED <<num_sets_entry, num_sets, set_entries, item_textboxes, set_data,
                   generate_button, save_matrix_button, save_plot_button, ever_success>>

\* what save_upset_plot does over the collection d when the dialog returns file_path
save_upset_plot_effect(d, file_path) ==
    IF d = <<>>
    THEN [df |-> Absent, written |-> "none", messages |-> <<ErrNoPlot>>]
    ELSE IF file_path # <<>>
    THEN [df |-> Some(DataFrame(d)), written |-> "png", messages |-> <<InfoPng(file_path)>>]
    ELSE [df |-> Absent, written |-> "none", messages |-> <<>>]

save_upset_plot(file_path) ==
    /\ save_plot_button
    /\ LET e == save_upset_plot_effect(set_data, file_path)
       IN  /\ df' = e.df
           /\ written' = e.written
           /\ messages' = e.messages
    /\ shown' = FALSE
    /\ last_call' = "save_upset_plot"
    /\ UNCHANGED <<num_sets_entry, num_sets, set_entries, item_textboxes, set_data,
                   generate_button, save_matrix_button, save_plot_button, ever_success>>

(* ---------------------------------------------------------------------- *)
(* Specification                                                           *)
(* ---------------------------------------------------------------------- *)

Next ==
    \/ \E text \in CountTexts : get_user_input(text)
    \/ \E i \in 1..MaxCount, text \in NameTexts : type_set_name(i, text)
    \/ \E i \in 1..MaxCount, text \in ItemTexts : type_items(i, text)
    \/ process_sets
    \/ \E file_path \in FilePaths : save_to_csv(file_path)
    \/ \E file_path \in FilePaths : save_upset_plot(file_path)

Spec == Init /\ [][Next]_vars

(* ---------------------------------------------------------------------- *)
(* Vocabulary of the properties                                            *)
(* ---------------------------------------------------------------------- *)

\* a text that is empty or holds only blanks and line breaks
AllWhitespace(text) == \A j \in 1..Len(text) : text[j] \in Whitespace

\* a string with at least one character and no blank at either end
Stripped(s) == s # <<>> /\ s[1] \notin Whitespace /\ s[Len(s)] \notin Whitespace

Reported(icon) == \E j \in 1..Len(messages) : messages[j].icon = icon

Success == last_call = "process_sets" /\ \E j \in 1..Len(messages) : messages[j] = InfoOK

\* the fields process_sets reads: range(num_sets)
FieldsRead == 1..Get(num_sets)

\* text is the decimal numeral of n, possibly signed with + and padded with blanks
Numeral(text, n) ==
    LET t == SelectSeq(text, LAMBDA c : c \notin Whitespace)
    IN  \/ t = <<DigitChars[n + 1]>>
        \/ t = <<"+", DigitChars[n + 1]>>

PositiveCount(text) == \E n \in 1..9 : Numeral(text, n)

(* ---------------------------------------------------------------------- *)
(* C1                                                                      *)
(* ---------------------------------------------------------------------- *)

\* t has one row per item of the union of d's sets, in ascending order, one
\* column per name of d in insertion order, and cell 1 exactly for members
TableOf(t, d) ==
    /\ Len(t.index) = Cardinality(UNION { d[k].items : k \in 1..Len(d) })
    /\ { t.index[i] : i \in 1..Len(t.index) } = UNION { d[k].items : k \in 1..Len(d) }
    /\ \A i, j \in 1..Len(t.index) : i < j => StrLess(t.index[i], t.index[j])
    /\ Len(t.columns) = Len(d)
    /\ \A k \in 1..Len(d) : t.columns[k] = d[k].name
    /\ Len(t.rows) = Len(t.index)
    /\ \A i \in 1..Len(t.index) :
          /\ Len(t.rows[i]) = Len(d)
          /\ \A k \in 1..Len(d) :
                /\ t.rows[i][k] \in {0, 1}
                /\ t.rows[i][k] = 1 <=> t.index[i] \in d[k].items

\* C1: over a collection of one or more non-empty sets, save_to_csv, the plot
\* shown by process_sets and save_upset_plot (once a file is chosen) derive a
\* table with one row per distinct item of the union, rows in sorted order,
\* columns the set names in insertion order, and cell 1 iff the item is a member.
C1_TableIsIncidenceMatrix ==
    /\ df # Absent => TableOf(Get(df), set_data)
    /\ (set_data # <<>> /\ last_call = "save_to_csv") => df # Absent
    /\ (set_data # <<>> /\ Success) => (df # Absent /\ shown)
    /\ (set_data # <<>> /\ last_call = "save_upset_plot" /\ written = "png") => df # Absent

C1_Witness ==
    /\ last_call = "save_to_csv"
    /\ df # Absent
    /\ Len(Get(df).columns) = 2
    /\ Get(df).index = << <<"x">>, <<"y">> >>
    /\ Get(df).rows = << <<1, 1>>, <<0, 1>> >>

(* ---------------------------------------------------------------------- *)
(* C2                                                                      *)
(* ---------------------------------------------------------------------- *)

InvalidField(i) ==
    \/ AllWhitespace(Get(set_entries)[i])
    \/ AllWhitespace(Get(item_textboxes)[i])

C3_CountValidated ==
    [][ last_call' = "get_user_input"
        => IF PositiveCount(num_sets_entry')
           THEN /\ \A j \in 1..Len(messages') : messages'[j].icon # "critical"
                /\ set_entries' # Absent
                /\ item_textboxes' # Absent
                /\ Numeral(num_sets_entry', Len(Get(set_entries')))
                /\ Numeral(num_sets_entry', Len(Get(item_textboxes')))
                /\ generate_button'
           ELSE /\ messages' = <<ErrCount>>
                /\ set_entries' = set_entries
                /\ item_textboxes' = item_textboxes
                /\ generate_button' = generate_button ]_vars

C3_Witness ==
    /\ last_call = "get_user_input"
    /\ num_sets_entry = <<"0">>
    /\ messages = <<ErrCount>>
    /\ set_entries # Absent

(* ---------------------------------------------------------------------- *)
(* C4                                                                      *)
(* ---------------------------------------------------------------------- *)

\* C4: a CSV or PNG file is written only after process_sets has reported
\* success and only from a non-empty set collection; an export or plot over
\* an empty collection reports an error and derives no table.
C4_NoExportWithoutData ==
    /\ written # "none" => (ever_success /\ set_data # <<>> /\ df # Absent)
    /\ (set_data = <<>> /\ (last_call \in {"save_to_csv", "save_upset_plot"} \/ Success))
          => (Reported("critical") /\ df = Absent /\ ~shown /\ written = "none")

C4_Witness ==
    /\ last_call = "save_upset_plot"
    /\ set_data = <<>>
    /\ messages = <<ErrNoPlot>>

(* ---------------------------------------------------------------------- *)
(* C5                                                                      *)
(* ---------------------------------------------------------------------- *)

\* C5: every entry of set_data has a non-blank, stripped name and a non-empty
\* set of non-blank, stripped items, and so has every table derived from it.
C5_EntriesWellFormed ==
    /\ \A k \in 1..Len(set_data) :
          /\ Stripped(set_data[k].name)
          /\ set_data[k].items # {}
          /\ \A item \in set_data[k].items : Stripped(item)
    /\ df # Absent =>
          /\ \A k \in 1..Len(Get(df).columns) : Stripped(Get(df).columns[k])
          /\ \A i \in 1..Len(Get(df).index) : Stripped(Get(df).index[i])

C5_Witness ==
    /\ Len(set_data) = 2
    /\ Get(set_entries)[1] = <<" ", "A">>
    /\ set_data[1].name = <<"A">>
    /\ Get(item_textboxes)[1] = <<"y", NL, " ", NL, " ", "x">>
    /\ set_data[1].items = { <<"x">>, <<"y">> }
    /\ df # Absent

(* ---------------------------------------------------------------------- *)
(* C6                                                                      *)
(* ---------------------------------------------------------------------- *)

\* C6: when process_sets reports success, set_data holds one set per field
\* read, the k-th holding the items of the k-th field, and the table shown
\* has one column per field; equal names are never merged.
C6_OneSetPerField ==
    Success =>
        /\ Len(set_data) = Cardinality(FieldsRead)
        /\ \A k \in 1..Len(set_data) :
              set_data[k].items = parse_items(Get(item_textboxes)[k])
        /\ df # Absent => Len(Get(df).columns) = Cardinality(FieldsRead)

(* ---------------------------------------------------------------------- *)
(* C7                                                                      *)
(* ---------------------------------------------------------------------- *)

\* C7: a process_sets call that does not report success leaves set_data as
\* it was.
C7_FailedCallKeepsSetData ==
    [][ (last_call' = "process_sets"
         /\ \A j \in 1..Len(messages') : messages'[j] # InfoOK)
        => set_data' = set_data ]_vars

(* ---------------------------------------------------------------------- *)
(* C8                                                                      *)
(* ---------------------------------------------------------------------- *)

\* C8: a count submission that get_user_input rejects leaves num_sets, the
\* field lists, set_data and the three buttons as they were.
C8_RejectedCountKeepsState ==
    [][ (last_call' = "get_user_input" /\ ~PositiveCount(num_sets_entry'))
        => /\ num_sets' = num_sets
           /\ set_entries' = set_entries
           /\ item_textboxes' = item_textboxes
           /\ set_data' = set_data
           /\ generate_button' = generate_button
           /\ save_matrix_button' = save_matrix_button
           /\ save_plot_button' = save_plot_button ]_vars

(* ---------------------------------------------------------------------- *)
(* C9                                                                      *)
(* ---------------------------------------------------------------------- *)

\* C9: whenever process_sets reports success, set_data holds at least one
\* set and the plot it starts does not end in "No data to visualize."
C9_SuccessHasData ==
    Success =>
        /\ set_data # <<>>
        /\ \A j \in 1..Len(messages) : messages[j] # ErrNoPlot

(* ---------------------------------------------------------------------- *)
(* C10                                                                     *)
(* ---------------------------------------------------------------------- *)

\* C10: while the Generate button is enabled, num_sets and both field lists
\* exist and each list has at least num_sets entries.
C10_GenerateHasFields ==
    generate_button =>
        /\ num_sets # Absent
        /\ set_entries # Absent
        /\ item_textboxes # Absent
        /\ Len(Get(set_entries)) >= Get(num_sets)
        /\ Len(Get(item_textboxes)) >= Get(num_sets)

C10_Witness ==
    /\ generate_button
    /\ last_call = "process_sets"
    /\ Get(num_sets) = 0 - 1
    /\ Len(Get(set_entries)) = 2

====
